---- MODULE Spec2Model ----
(***************************************************************************)
(* openhands-data-feeder: the TwelveData API key pool (api_key_manager.py), *)
(* the closed-candle fetch primitive (candle_fetcher.py), the rolling store *)
(* (data_storage.py) and the scheduler (scheduler.py, main.py lifespan).    *)
(*                                                                         *)
(* The service runs on one asyncio event loop: everything a coroutine does  *)
(* between two awaits is one atomic step.  The awaits are asyncio.sleep     *)
(* and the HTTP request of fetch_candles.  A sleep ends no earlier than its *)
(* duration; a request ends within twice the timeout of the HTTP client.   *)
(* Time is the UTC clock in whole seconds, advanced by Tick.                *)
(***************************************************************************)
EXTENDS Integers, Sequences, FiniteSets, TLC

\* ---------------------------------------------------------------- bounds
\* Number of TWELVEDATA_KEY_i environment slots that may be set.
MaxKeys == 2
\* Quotas of config.py, scaled down so that exhaustion is reached.
TWELVEDATA_DAILY_LIMIT == 3
TWELVEDATA_MINUTE_LIMIT == 2
\* History size requested at bootstrap (ROLLING_LIMITS, scaled down).
MaxHistory == 2
\* The clock stops after this many ticks.
MaxTicks == 13
\* The cron job runs at most this many times.
MaxCycles == 2
\* Calls of the store when it is exercised on its own.
MaxStoreOps == 3
\* Failed fetches in a row of one bootstrap stream taken as "a bounded number".
MaxBootRetries == 5
\* UTC days after the first that a run of bootstrap to its end may take.
BootDays == 3

\* ---------------------------------------------------------- configuration
PAIRS == <<"EURUSD", "GBPUSD", "USDJPY">>
TIMEFRAMES == <<"1min", "5min">>
\* TIMEFRAMES of config.py in full; the service above runs on its first two.
CONFIG_TIMEFRAMES == <<"1min", "5min", "15min", "1h", "4h">>
TIMEFRAME_PRIORITY == <<"1min", "5min", "15min", "1h", "4h">>
ROLLING_LIMITS == [tf \in {"1min", "5min", "15min", "1h", "4h"} |-> MaxHistory]

\* The clock advances in steps of 20 s, starting at 23:58:05 UTC of day 0,
\* so that the cron second (5), the 60 s window and midnight are all met.
ClockSteps == {20}
StartNow == 23 * 3600 + 58 * 60 + 5
MaxNow == StartNow + MaxTicks * 20

\* httpx.AsyncClient(timeout=30.0): 30 s to connect and 30 s to read, so a
\* request ends, with a response or an exception, within twice that.
HttpTimeout == 30
Deadline(t) == t + 2 * HttpTimeout
\* Seconds from the start in which the provider may answer without candles.
SettleTime == 2 * 20

NoKey == 0
NoCandles == <<>>

VARIABLES
    now,              \* time.time() / datetime.now(timezone.utc), in seconds
    keys,             \* APIKeyManager.keys
    key_stats,        \* APIKeyManager.key_stats
    last_daily_reset, \* APIKeyManager.last_daily_reset (a UTC date)
    data,             \* DataStorage.data
    is_initialized,   \* CandleScheduler.is_initialized
    started,          \* CandleScheduler.started
    boot,             \* the initialize_data coroutine
    tasks,            \* the _fetch_pair_at_offset task of each pair
    last_tick,        \* the instant of the last minute_tick run
    cycles,           \* the number of minute_tick runs so far
    calls,            \* history: the pool calls and requests of the last step
    consec,           \* history: reserve grants per key since its window opened
    live_grants,      \* history: live-mode reserve grants per key in its window
    retries,          \* history: failed fetches in a row of the bootstrap stream
    probe             \* the arguments and the result of a function applied alone

vars == <<now, keys, key_stats, last_daily_reset, data, is_initialized, started,
          boot, tasks, last_tick, cycles, calls, consec, live_grants, retries,
          probe>>

KeySet == {keys[i] : i \in 1..Len(keys)}
PairSet == {PAIRS[i] : i \in 1..Len(PAIRS)}
TfSet == {TIMEFRAMES[i] : i \in 1..Len(TIMEFRAMES)}

Min(S) == CHOOSE x \in S : \A y \in S : x <= y

\* datetime.now(timezone.utc).date()
Date(t) == t \div 86400

\* ------------------------------------------------------------ key pool
NewKeyStats ==
    [requests_today |-> 0, requests_this_minute |-> 0,
     last_used_timestamp |-> 0, minute_window_start |-> 0]

\* The pool as a value: the per-key records and the day of the last reset.
Pool(st, ldr) == [stats |-> st, ldr |-> ldr]

reset_daily_counters_if_needed(P, t) ==
    IF P.ldr < Date(t)
    THEN Pool([k \in DOMAIN P.stats |-> [P.stats[k] EXCEPT !.requests_today = 0]],
              Date(t))
    ELSE P

\* Mutant: the window is taken to be over only after more than 60 s.
WindowOverLate(s, t) ==
    s.minute_window_start = 0 \/ t - s.minute_window_start > 60

WindowOver(s, t) ==
    s.minute_window_start = 0 \/ t - s.minute_window_start >= 60

reset_minute_counter_if_needed(s, t) ==
    IF WindowOver(s, t)
    THEN [s EXCEPT !.requests_this_minute = 0, !.minute_window_start = t]
    ELSE s

\* list.sort(key=...) is stable: the first of the candidates (in the order of
\* self.keys) that has the least count.
LeastUsed(cands, count) ==
    cands[CHOOSE i \in 1..Len(cands) :
            \A j \in 1..Len(cands) :
                \/ count[cands[i]] < count[cands[j]]
                \/ count[cands[i]] = count[cands[j]] /\ i <= j]

\* Mutant: the daily limit is not looked at.
UnderLimitsNoDaily(s) ==
    s.requests_this_minute < TWELVEDATA_MINUTE_LIMIT

\* Mutant: the per-minute comparison is off by one.
UnderLimitsOffByOne(s) ==
    /\ s.requests_today < TWELVEDATA_DAILY_LIMIT
    /\ s.requests_this_minute < TWELVEDATA_MINUTE_LIMIT - 1

UnderLimits(s) ==
    /\ s.requests_today < TWELVEDATA_DAILY_LIMIT
    /\ s.requests_this_minute < TWELVEDATA_MINUTE_LIMIT

\* The per-key loop of _reset_minute_counter_if_needed.
ResetMinutes(D, t) ==
    Pool([k \in DOMAIN D.stats |-> reset_minute_counter_if_needed(D.stats[k], t)],
         D.ldr)

\* The keys under both the daily and the per-minute limit, in key order.
ReserveAvailable(st) == SelectSeq(keys, LAMBDA k : UnderLimits(st[k]))

\* The key with the least usage in the current minute.
ReservePick(st) ==
    LeastUsed(ReserveAvailable(st), [k \in DOMAIN st |-> st[k].requests_this_minute])

\* Mutant: the wait does not follow the minute windows and outlasts the run.
WaitPastRun(st, t) == (BootDays + 1) * 86400

\* max(0.5, min(times_to_wait)); every residual is a whole number of seconds
\* >= 1 after the resets, a residual below 1 s is rounded up to the next second.
WaitTime(st, t) ==
    LET times_to_wait == {60 - (t - st[k].minute_window_start) : k \in DOMAIN st}
    IN  IF Min(times_to_wait) < 1 THEN 1 ELSE Min(times_to_wait)

ReserveResult(Q, t) ==
    IF ReserveAvailable(Q.stats) # <<>>
    THEN [pool |-> Q, key |-> ReservePick(Q.stats), wait |-> 0]
    ELSE [pool |-> Q, key |-> NoKey, wait |-> WaitTime(Q.stats, t)]

\* reserve_key_for_request: (key, 0.0) or (None, wait_time), and the pool after.
reserve_key_for_request(P, t) ==
    ReserveResult(ResetMinutes(reset_daily_counters_if_needed(P, t), t), t)

SelectAvailable(st) ==
    SelectSeq(keys, LAMBDA k :
        ~ (st[k].requests_today >= TWELVEDATA_DAILY_LIMIT)
        /\ ~ (st[k].requests_this_minute >= TWELVEDATA_MINUTE_LIMIT))

SelectResult(Q) ==
    IF SelectAvailable(Q.stats) = <<>>
    THEN [pool |-> Q, key |-> NoKey]
    ELSE [pool |-> Q,
          key |-> LeastUsed(SelectAvailable(Q.stats),
                            [k \in DOMAIN Q.stats |-> Q.stats[k].requests_today])]

\* get_available_key: the least-used (daily) key under both limits, or None.
get_available_key(P, t) ==
    SelectResult(ResetMinutes(reset_daily_counters_if_needed(P, t), t))

record_usage(P, key, t) ==
    IF key \in DOMAIN P.stats
    THEN LET s  == P.stats[key]
             s1 == IF s.minute_window_start = 0
                   THEN [s EXCEPT !.minute_window_start = t] ELSE s
         IN  Pool([P.stats EXCEPT ![key] =
                      [s1 EXCEPT !.requests_today = s1.requests_today + 1,
                                 !.requests_this_minute = s1.requests_this_minute + 1,
                                 !.last_used_timestamp = t]],
                  P.ldr)
    ELSE P

get_stats(P) ==
    [total_keys |-> Len(keys),
     key_stats |-> [i \in 1..Len(keys) |->
        [requests_today |-> P.stats[keys[i]].requests_today,
         requests_this_minute |-> P.stats[keys[i]].requests_this_minute]]]

\* ------------------------------------------------- clock / closure rules
Minute(t) == (t \div 60) % 60
Hour(t) == (t \div 3600) % 24

\* Mutant: the 4h candle is taken to close at any minute of its hour.
ClosedAnyMinute(timeframe, t) ==
    CASE timeframe = "1min" -> TRUE
      [] timeframe = "5min" -> Minute(t) % 5 = 0
      [] timeframe = "15min" -> Minute(t) % 15 = 0
      [] timeframe = "1h" -> Minute(t) = 0
      [] timeframe = "4h" -> Hour(t) % 4 = 0
      [] OTHER -> FALSE

is_candle_closed(timeframe, t) ==
    CASE timeframe = "1min" -> TRUE
      [] timeframe = "5min" -> Minute(t) % 5 = 0
      [] timeframe = "15min" -> Minute(t) % 15 = 0
      [] timeframe = "1h" -> Minute(t) = 0
      [] timeframe = "4h" -> Hour(t) % 4 = 0 /\ Minute(t) = 0
      [] OTHER -> FALSE

\* [tf for tf in TIMEFRAMES if is_candle_closed(tf, dt)] over a list.
ClosingAmong(timeframes, t) ==
    SelectSeq(timeframes, LAMBDA tf : is_candle_closed(tf, t))

get_timeframes_to_fetch(t) == ClosingAmong(TIMEFRAMES, t)

\* intervals.get(timeframe), in minutes; 0 stands for None.
Intervals(timeframe) ==
    CASE timeframe = "1min" -> 1
      [] timeframe = "5min" -> 5
      [] timeframe = "15min" -> 15
      [] timeframe = "1h" -> 60
      [] timeframe = "4h" -> 240
      [] OTHER -> 0

\* Mutant: the candle counts as closed only after its close time.
ConfirmedStrictlyAfter(candle_ts, t, timeframe) ==
    LET minutes == Intervals(timeframe)
    IN  IF minutes = 0 THEN FALSE ELSE t > candle_ts + minutes * 60

\* Mutant: the candle counts as closed only until the next one closes.
ConfirmedUntilNext(candle_ts, t, timeframe) ==
    LET minutes == Intervals(timeframe)
    IN  IF minutes = 0 THEN FALSE
        ELSE t >= candle_ts + minutes * 60 /\ t < candle_ts + 2 * minutes * 60

\* A candle is its "datetime", the UTC second its interval opens.
is_confirmed_closed(candle_ts, t, timeframe) ==
    LET minutes == Intervals(timeframe)
    IN  IF minutes = 0 THEN FALSE ELSE t >= candle_ts + minutes * 60

\* --------------------------------------------------------- rolling store
\* deque(maxlen=limit).append
DequeAppend(storage, candle, limit) ==
    IF Len(storage) >= limit
    THEN Append(Tail(storage), candle)
    ELSE Append(storage, candle)

RECURSIVE AppendReversed(_, _, _)
AppendReversed(storage, candles, limit) ==
    IF candles = <<>> THEN storage
    ELSE AppendReversed(DequeAppend(storage, candles[Len(candles)], limit),
                        SubSeq(candles, 1, Len(candles) - 1), limit)

set_initial_data(d, pair, timeframe, candles) ==
    IF pair \notin DOMAIN d \/ timeframe \notin DOMAIN d[pair] THEN d
    ELSE [d EXCEPT ![pair][timeframe] =
            AppendReversed(<<>>, candles, ROLLING_LIMITS[timeframe])]

\* Mutant: the candle is appended without the look at the timestamps.
AddUnchecked(d, pair, timeframe, candle) ==
    IF pair \notin DOMAIN d \/ timeframe \notin DOMAIN d[pair] THEN d
    ELSE [d EXCEPT ![pair][timeframe] =
            DequeAppend(d[pair][timeframe], candle, ROLLING_LIMITS[timeframe])]

add_single_candle(d, pair, timeframe, candle) ==
    IF pair \notin DOMAIN d \/ timeframe \notin DOMAIN d[pair] THEN d
    ELSE LET storage == d[pair][timeframe]
             existing_timestamps == {storage[i].datetime : i \in 1..Len(storage)}
         IN  IF candle.datetime \notin existing_timestamps
             THEN [d EXCEPT ![pair][timeframe] =
                     DequeAppend(storage, candle, ROLLING_LIMITS[timeframe])]
             ELSE d

\* ------------------------------------------------------------- provider
\* What TwelveData may answer to a request for n values at time t: an error
\* (HTTP status, missing "values", transport exception), no values, or the
\* n latest candles newest first, the first of them still open.
LatestCandles(timeframe, n, t) ==
    LET dur == Intervals(timeframe) * 60
    IN  [i \in 1..n |-> [datetime |-> (t \div dur) * dur - (i - 1) * dur]]

Responses(timeframe, n, t) ==
    {[ok |-> FALSE, values |-> <<>>],
     [ok |-> TRUE, values |-> <<>>],
     [ok |-> TRUE, values |-> LatestCandles(timeframe, n, t)]}

\* ------------------------------------------------- history of pool calls
\* One entry per call of the pool, per request sent and per skipped fetch.
Caller(mode, pair, timeframe) == [mode |-> mode, pair |-> pair, tf |-> timeframe]

Entry(op, who, t, key, reserved, pre, post) ==
    [op |-> op, who |-> who, time |-> t, key |-> key, reserved |-> reserved,
     pre |-> pre, post |-> post, out |-> <<>>]

\* What a coroutine holds during one atomic step: the pool, the calls made so
\* far, and its locals key (of reserve_key_for_request), wait_time, api_key
\* (of fetch_candles), whether the request went out, and the candles returned.
Ctx(P) ==
    [pool |-> P, log |-> <<>>, key |-> NoKey, wait |-> 0, api_key |-> NoKey,
     sent |-> FALSE, candles |-> NoCandles]

ReserveInto(X, R, who, t) ==
    [X EXCEPT !.pool = R.pool, !.key = R.key, !.wait = R.wait,
              !.log = Append(@, Entry("reserve", who, t, R.key, NoKey, X.pool, R.pool))]

DoReserve(X, who, t) == ReserveInto(X, reserve_key_for_request(X.pool, t), who, t)

SelectInto(X, R, who, t) ==
    [X EXCEPT !.pool = R.pool, !.api_key = R.key,
              !.log = Append(@, Entry("select", who, t, R.key, NoKey, X.pool, R.pool))]

DoSelect(X, who, t) == SelectInto(X, get_available_key(X.pool, t), who, t)

RecordInto(X, P, who, key, t) ==
    [X EXCEPT !.pool = P,
              !.log = Append(@, Entry("record", who, t, key, NoKey, X.pool, P))]

DoRecord(X, who, key, t) == RecordInto(X, record_usage(X.pool, key, t), who, key, t)

DoSend(X, who, t) ==
    [X EXCEPT !.sent = TRUE,
              !.log = Append(@, Entry("send", who, t, X.api_key, X.key, X.pool, X.pool))]

DoSkip(X, who, t) ==
    [X EXCEPT !.sent = FALSE,
              !.log = Append(@, Entry("skip", who, t, NoKey, NoKey, X.pool, X.pool))]

\* ------------------------------------------------------------- fetcher
SendIfKey(G, who, t) ==
    IF G.api_key = NoKey THEN [G EXCEPT !.sent = FALSE] ELSE DoSend(G, who, t)

\* fetch_candles up to its await: pick the key and send the request.
FetchBegin(X, who, t) == SendIfKey(DoSelect(X, who, t), who, t)

\* Mutant: the values are kept without the closure test.
ConfirmedUnfiltered(values, timeframe, outputsize, t) ==
    SubSeq(values, 1, IF Len(values) < outputsize THEN Len(values) ELSE outputsize)

\* Mutant: of the confirmed candles the last ones of the response are kept.
ConfirmedOldest(values, timeframe, outputsize, t) ==
    LET confirmed_candles ==
            SelectSeq(values, LAMBDA c : is_confirmed_closed(c.datetime, t, timeframe))
    IN  SubSeq(confirmed_candles,
               IF Len(confirmed_candles) < outputsize
               THEN 1 ELSE Len(confirmed_candles) - outputsize + 1,
               Len(confirmed_candles))

\* The for loop over data["values"] and confirmed_candles[:outputsize].
Confirmed(values, timeframe, outputsize, t) ==
    LET confirmed_candles ==
            SelectSeq(values, LAMBDA c : is_confirmed_closed(c.datetime, t, timeframe))
    IN  SubSeq(confirmed_candles, 1,
               IF Len(confirmed_candles) < outputsize
               THEN Len(confirmed_candles) ELSE outputsize)

ReturnConfirmed(X, who, confirmed_candles, t) ==
    IF confirmed_candles # <<>>
    THEN [DoRecord(X, who, X.api_key, t) EXCEPT !.candles = confirmed_candles]
    ELSE [X EXCEPT !.candles = NoCandles]

\* fetch_candles from the response on: the confirmed candles (<<>> for None).
FetchEnd(X, who, outputsize, resp, t) ==
    ReturnConfirmed(X, who,
                    IF resp.ok THEN Confirmed(resp.values, who.tf, outputsize, t)
                    ELSE NoCandles, t)

\* ----------------------------------------------------- history counters
\* Grants of reserve_key_for_request per key since the key's minute window
\* opened.  With live = FALSE every grant counts and a record_usage of the key
\* voids the count (-1) until the window reopens; with live = TRUE only the
\* grants to live-mode tasks count.
RECURSIVE Tally(_, _, _)
Tally(c, log, live) ==
    IF log = <<>> THEN c
    ELSE LET e == Head(log)
             c1 == [k \in DOMAIN c |->
                      IF e.post.stats[k].minute_window_start
                            # e.pre.stats[k].minute_window_start
                      THEN 0 ELSE c[k]]
             c2 == IF e.op = "reserve" /\ e.key # NoKey /\ (live => e.who.mode = "live")
                   THEN [c1 EXCEPT ![e.key] = IF @ < 0 THEN @ ELSE @ + 1]
                   ELSE IF e.op = "record" /\ ~ live /\ e.key \in DOMAIN c
                        THEN [c1 EXCEPT ![e.key] = -1]
                        ELSE c1
         IN  Tally(c2, Tail(log), live)

\* The pool and the history after a step that made the calls of X.log.
Commit(X) ==
    /\ key_stats' = X.pool.stats
    /\ last_daily_reset' = X.pool.ldr
    /\ calls' = X.log
    /\ consec' = Tally(consec, X.log, FALSE)
    /\ live_grants' = Tally(live_grants, X.log, TRUE)

Here == Ctx(Pool(key_stats, last_daily_reset))

\* ----------------------------------------------------------- bootstrap
BootRec(pc, i, j, key, api_key, wake) ==
    [pc |-> pc, pair |-> i, tf |-> j, key |-> key, api_key |-> api_key, wake |-> wake]

\* One pass of the while loop of initialize_data up to its await: reserve a
\* key, then either send the request of fetch_initial_history or sleep.
BootTry(i, j) ==
    \E R \in {DoReserve(Here, Caller("boot", PAIRS[i], TIMEFRAMES[j]), now)} :
        IF R.key # NoKey
        THEN \E F \in {FetchBegin(R, Caller("boot", PAIRS[i], TIMEFRAMES[j]), now)} :
                /\ boot' = IF F.sent
                           THEN BootRec("fetching", i, j, F.key, F.api_key, Deadline(now))
                           ELSE BootRec("sleep", i, j, NoKey, NoKey, now + 10)
                /\ Commit(F)
        ELSE /\ boot' = BootRec("sleep", i, j, NoKey, NoKey, now + R.wait)
             /\ Commit(R)

\* initialize_data begins, or wakes from sleep(10) / sleep(wait_time).
BootWake ==
    /\ boot.pc \in {"start", "sleep"}
    /\ now >= boot.wake
    /\ BootTry(boot.pair, boot.tf)
    /\ UNCHANGED <<probe, retries,
                   now, keys, data, is_initialized, started, tasks, last_tick, cycles>>

\* The response of the bootstrap request arrives: one of answers.
BootRespond(answers) ==
    /\ boot.pc = "fetching"
    /\ \E resp \in answers :
       \E who \in {Caller("boot", PAIRS[boot.pair], TIMEFRAMES[boot.tf])} :
       \E F \in {FetchEnd([Here EXCEPT !.key = boot.key, !.api_key = boot.api_key],
                          who, ROLLING_LIMITS[who.tf], resp, now)} :
         IF F.candles # <<>>
         THEN /\ data' = set_initial_data(data, who.pair, who.tf, F.candles)
              /\ Commit(DoRecord(F, who, F.key, now))
              /\ boot' = BootRec("pause", boot.pair, boot.tf, NoKey, NoKey, now)
              /\ retries' = 0
         ELSE /\ data' = data
              /\ Commit(F)
              /\ boot' = BootRec("sleep", boot.pair, boot.tf, NoKey, NoKey, now + 10)
              /\ retries' = retries + 1
    /\ UNCHANGED <<probe, now, keys, is_initialized, started, tasks, last_tick,
                   cycles>>

BootResponse ==
    BootRespond(Responses(TIMEFRAMES[boot.tf],
                          ROLLING_LIMITS[TIMEFRAMES[boot.tf]] + 1, now))

\* Mutant: the flag is set when the timeframes of one pair are done.
LastStreamEarly(i, j) == j = Len(TIMEFRAMES)

LastStream(i, j) == i = Len(PAIRS) /\ j = Len(TIMEFRAMES)

\* Mutant: the loops leave a pair after its first timeframe.
StreamAfterFirst(i, j) == <<i + 1, 1>>

\* for pair in PAIRS: for timeframe in TIMEFRAMES: the indices that come next.
StreamAfter(i, j) == IF j < Len(TIMEFRAMES) THEN <<i, j + 1>> ELSE <<i + 1, 1>>

\* After sleep(0.2): the next timeframe or pair; after the last one
\* is_initialized is set and the lifespan starts the scheduler.
BootNext ==
    /\ boot.pc = "pause"
    /\ now >= boot.wake
    /\ IF LastStream(boot.pair, boot.tf)
       THEN /\ is_initialized' = TRUE
            /\ started' = TRUE
            /\ boot' = BootRec("done", boot.pair, boot.tf, NoKey, NoKey, now)
            /\ calls' = <<>>
            /\ UNCHANGED <<key_stats, last_daily_reset, consec, live_grants>>
       ELSE /\ BootTry(StreamAfter(boot.pair, boot.tf)[1],
                       StreamAfter(boot.pair, boot.tf)[2])
            /\ UNCHANGED <<is_initialized, started>>
    /\ UNCHANGED <<probe, retries, now, keys, data, tasks, last_tick, cycles>>

\* ------------------------------------------------------------ live mode
PriorityIndex(tf) ==
    IF \E i \in 1..Len(TIMEFRAME_PRIORITY) : TIMEFRAME_PRIORITY[i] = tf
    THEN CHOOSE i \in 1..Len(TIMEFRAME_PRIORITY) : TIMEFRAME_PRIORITY[i] = tf
    ELSE Len(TIMEFRAME_PRIORITY) + 1

\* Mutant: the timeframes are taken slowest first.
SlowestFirst(timeframes) ==
    [i \in 1..Len(timeframes) |-> timeframes[Len(timeframes) + 1 - i]]

\* sorted(timeframes, key=priority), a stable sort.
RECURSIVE SortedTfs(_)
SortedTfs(timeframes) ==
    IF timeframes = <<>> THEN <<>>
    ELSE LET i == CHOOSE i \in 1..Len(timeframes) :
                    \A j \in 1..Len(timeframes) :
                        \/ PriorityIndex(timeframes[i]) < PriorityIndex(timeframes[j])
                        \/ /\ PriorityIndex(timeframes[i]) = PriorityIndex(timeframes[j])
                           /\ i <= j
         IN  <<timeframes[i]>> \o
             SortedTfs(SubSeq(timeframes, 1, i - 1)
                       \o SubSeq(timeframes, i + 1, Len(timeframes)))

\* _compute_pair_offsets
PairOffset(idx) ==
    LET pair_count == Len(PAIRS)
        slot_size == IF 60 \div pair_count < 1 THEN 1 ELSE 60 \div pair_count
    IN  (idx - 1) * slot_size

PairIndex(pair) == CHOOSE i \in 1..Len(PAIRS) : PAIRS[i] = pair

TaskRec(pc, wake, due, tfs, key, api_key, attempted) ==
    [pc |-> pc, wake |-> wake, due |-> due, tfs |-> tfs, key |-> key,
     api_key |-> api_key, attempted |-> attempted]

IdleTask == TaskRec("idle", 0, <<>>, <<>>, NoKey, NoKey, <<>>)

\* Mutant: break instead of continue.
AfterSkipBreak(tfs) == <<>>

\* What is left of the for loop after "[LIVE SKIP] ... continue".
AfterSkip(tfs) == Tail(tfs)

\* One pass of the for loop of _fetch_pair_at_offset up to the await of
\* fetch_candles: reserve, then skip, or send the request, or (fetch_candles
\* found no key and returned None) record the usage.
AfterFetchBegin(F, who, t) ==
    IF F.sent THEN F ELSE DoRecord(F, who, F.key, t)

AfterReserve(R, who, t) ==
    IF R.key = NoKey
    THEN DoSkip(R, who, t)
    ELSE AfterFetchBegin(FetchBegin(R, who, t), who, t)

LivePass(X, who, t) == AfterReserve(DoReserve(X, who, t), who, t)

\* The for loop of _fetch_pair_at_offset from the head of tfs up to its next
\* await or its end.
RECURSIVE LiveLoop(_, _, _, _, _)
RECURSIVE LiveContinue(_, _, _, _, _)
LiveLoop(X, pair, tfs, attempted, t) ==
    IF tfs = <<>>
    THEN [ctx |-> X, task |-> TaskRec("done", 0, <<>>, <<>>, NoKey, NoKey, attempted)]
    ELSE LiveContinue(LivePass(X, Caller("live", pair, Head(tfs)), t), pair, tfs,
                      Append(attempted, Head(tfs)), t)

LiveContinue(S, pair, tfs, attempted, t) ==
    IF S.sent
    THEN [ctx |-> S,
          task |-> TaskRec("fetching", Deadline(t), <<>>, tfs, S.key, S.api_key,
                           attempted)]
    ELSE LiveLoop(S, pair, IF S.key = NoKey THEN AfterSkip(tfs) ELSE Tail(tfs),
                  attempted, t)

\* The cron job is due and the tasks of the tick before have ended.
TickDue ==
    /\ started
    /\ cycles < MaxCycles
    /\ now % 60 = 5
    /\ last_tick # now
    /\ \A p \in PairSet : tasks[p].pc \in {"idle", "done"}

\* minute_tick: the cron job of second 5 of every minute.  The model keeps one
\* task per pair, so a tick is taken only when the tasks of the tick before
\* have ended (the code would start a second task for the pair beside the
\* first); a tick that finds them running is passed over.
minute_tick ==
    /\ TickDue
    /\ last_tick' = now
    /\ cycles' = cycles + 1
    /\ LET timeframes_to_fetch == get_timeframes_to_fetch(now)
       IN  IF ~ is_initialized \/ timeframes_to_fetch = <<>>
           THEN tasks' = tasks
           ELSE tasks' = [p \in PairSet |->
                    TaskRec("sleeping", now + PairOffset(PairIndex(p)),
                            timeframes_to_fetch, <<>>, NoKey, NoKey, <<>>)]
    /\ calls' = <<>>
    /\ UNCHANGED <<probe, retries,
                   now, keys, key_stats, last_daily_reset, data, is_initialized,
                   started, boot, consec, live_grants>>

\* _fetch_pair_at_offset wakes from sleep(delay).
TaskWake(p) ==
    /\ tasks[p].pc = "sleeping"
    /\ now >= tasks[p].wake
    /\ \E L \in {LiveLoop(Here, p, SortedTfs(tasks[p].due), <<>>, now)} :
           /\ tasks' = [tasks EXCEPT ![p] = [L.task EXCEPT !.due = tasks[p].due]]
           /\ Commit(L.ctx)
    /\ UNCHANGED <<probe, retries,
                   now, keys, data, is_initialized, started, boot, last_tick, cycles>>

\* The response of a live request arrives.
TaskResponse(p) ==
    /\ tasks[p].pc = "fetching"
    /\ \E resp \in Responses(Head(tasks[p].tfs), 1 + 1, now) :
       \E who \in {Caller("live", p, Head(tasks[p].tfs))} :
       \E F \in {FetchEnd([Here EXCEPT !.key = tasks[p].key,
                                       !.api_key = tasks[p].api_key],
                          who, 1, resp, now)} :
       \E L \in {LiveLoop(DoRecord(F, who, F.key, now), p, Tail(tasks[p].tfs),
                          tasks[p].attempted, now)} :
         /\ data' = IF F.candles # <<>> /\ Len(F.candles) > 0
                    THEN add_single_candle(data, p, who.tf, F.candles[1])
                    ELSE data
         /\ tasks' = [tasks EXCEPT ![p] = [L.task EXCEPT !.due = tasks[p].due]]
         /\ Commit(L.ctx)
    /\ UNCHANGED <<probe, retries,
                   now, keys, is_initialized, started, boot, last_tick, cycles>>

\* GET /stats of main.py, served once the lifespan has started the scheduler.
GetStats ==
    /\ started
    /\ calls' = <<[Entry("stats", Caller("http", "", ""), now, NoKey, NoKey,
                         Pool(key_stats, last_daily_reset),
                         Pool(key_stats, last_daily_reset))
                   EXCEPT !.out = get_stats(Pool(key_stats, last_daily_reset))]>>
    /\ UNCHANGED <<probe, retries,
                   now, keys, key_stats, last_daily_reset, data, is_initialized,
                   started, boot, tasks, last_tick, cycles, consec, live_grants>>

\* A sleep of initialize_data or of a task has run its time, a request has
\* reached its deadline, or the cron job is due: the event loop runs them
\* before the clock moves on.
TimersDue ==
    \/ boot.pc \in {"start", "sleep", "pause", "fetching"} /\ now >= boot.wake
    \/ \E p \in PairSet : tasks[p].pc \in {"sleeping", "fetching"}
                            /\ now >= tasks[p].wake
    \/ TickDue

\* The clock advances.
Tick ==
    /\ ~ TimersDue
    /\ \E d \in ClockSteps :
         /\ now + d <= MaxNow
         /\ now' = now + d
    /\ calls' = <<>>
    /\ UNCHANGED <<probe, retries,
                   keys, key_stats, last_daily_reset, data, is_initialized, started,
                   boot, tasks, last_tick, cycles, consec, live_grants>>

\* The state after construction: the module-level singletons and the
\* lifespan about to run initialize_data.
Service ==
    /\ now = StartNow
    /\ keys \in {[i \in 1..n |-> i] : n \in 1..MaxKeys}
    /\ key_stats = [k \in KeySet |-> NewKeyStats]
    /\ last_daily_reset = Date(now)
    /\ data = [p \in PairSet |-> [tf \in TfSet |-> <<>>]]
    /\ is_initialized = FALSE
    /\ started = FALSE
    /\ boot = BootRec("start", 1, 1, NoKey, NoKey, now)
    /\ tasks = [p \in PairSet |-> IdleTask]
    /\ last_tick = 0
    /\ cycles = 0
    /\ calls = <<>>
    /\ consec = [k \in KeySet |-> 0]
    /\ live_grants = [k \in KeySet |-> 0]
    /\ retries = 0

\* No function is being applied alone.
NoProbe == [fn |-> "none"]

Init ==
    /\ Service
    /\ probe = NoProbe

Next ==
    \/ BootWake
    \/ BootResponse
    \/ BootNext
    \/ minute_tick
    \/ \E p \in PairSet : TaskWake(p)
    \/ \E p \in PairSet : TaskResponse(p)
    \/ GetStats
    \/ Tick

Spec == Init /\ [][Next]_vars

\* ------------------------------------------------ bootstrap to its end
\* The service up to the end of initialize_data over several days, with a
\* provider that answers without candles only in the first part of the run
\* and with the steps the event loop, the HTTP timeout and the clock make
\* sure of.  While initialize_data sleeps nothing else runs, so the clock
\* goes straight to the end of the sleep; a request is answered at once or
\* at its deadline.
ProviderSettles == StartNow + SettleTime
BootHorizon == StartNow + BootDays * 86400 + 600

SettledResponse ==
    BootRespond({resp \in Responses(TIMEFRAMES[boot.tf],
                                     ROLLING_LIMITS[TIMEFRAMES[boot.tf]] + 1, now) :
                    resp.values # <<>> \/ now < ProviderSettles})

BootClock ==
    /\ ~ TimersDue
    /\ boot.pc # "done"
    /\ boot.wake <= BootHorizon
    /\ now' = boot.wake
    /\ calls' = <<>>
    /\ UNCHANGED <<probe, retries, keys, key_stats, last_daily_reset, data,
                   is_initialized, started, boot, tasks, last_tick, cycles, consec,
                   live_grants>>

BootSpecNext == BootWake \/ SettledResponse \/ BootNext \/ BootClock

BootSpec ==
    /\ Init
    /\ [][BootSpecNext]_vars
    /\ WF_vars(BootWake)
    /\ WF_vars(SettledResponse)
    /\ WF_vars(BootNext)
    /\ WF_vars(BootClock)

\* ------------------------------------------------- live mode over midnight
\* The service a minute before midnight on a later day of its run:
\* initialize_data has ended long ago, the pool is spent for the day, and
\* the tick of 23:58:05 found no key and skipped every fetch.  The tick of
\* 00:00:05, after the daily reset, finds both timeframes due and keys free.
LiveStart == StartNow + 60
LastUse == LiveStart - 3600

SpentKeys ==
    {[requests_today |-> d, requests_this_minute |-> m,
      last_used_timestamp |-> LastUse, minute_window_start |-> LastUse] :
        d \in {TWELVEDATA_DAILY_LIMIT, TWELVEDATA_DAILY_LIMIT + 1},
        m \in 1..TWELVEDATA_MINUTE_LIMIT}

StoredAt(timeframe, t) ==
    AppendReversed(<<>>,
                   Confirmed(LatestCandles(timeframe, ROLLING_LIMITS[timeframe] + 1, t),
                             timeframe, ROLLING_LIMITS[timeframe], t),
                   ROLLING_LIMITS[timeframe])

LiveInit ==
    /\ now = LiveStart
    /\ keys \in {[i \in 1..n |-> i] : n \in 1..MaxKeys}
    /\ key_stats \in [KeySet -> SpentKeys]
    /\ last_daily_reset = Date(now)
    /\ data = [p \in PairSet |-> [tf \in TfSet |-> StoredAt(tf, LastUse)]]
    /\ is_initialized = TRUE
    /\ started = TRUE
    /\ boot = BootRec("done", Len(PAIRS), Len(TIMEFRAMES), NoKey, NoKey, LastUse)
    /\ tasks = [p \in PairSet |->
                  [TaskRec("done", 0, <<>>, <<>>, NoKey, NoKey,
                           SortedTfs(get_timeframes_to_fetch(StartNow)))
                   EXCEPT !.due = get_timeframes_to_fetch(StartNow)]]
    /\ last_tick = StartNow
    /\ cycles = 0
    /\ calls = <<>>
    /\ consec = [k \in KeySet |-> 0]
    /\ live_grants = [k \in KeySet |-> 0]
    /\ retries = 0
    /\ probe = NoProbe

LiveNext ==
    \/ minute_tick
    \/ \E p \in PairSet : TaskWake(p)
    \/ \E p \in PairSet : TaskResponse(p)
    \/ Tick

LiveSpec == LiveInit /\ [][LiveNext]_vars

\* ------------------------------------------- the clock rules on their own
\* is_confirmed_closed and is_candle_closed / get_timeframes_to_fetch applied
\* to arguments drawn from the sets below; the service stands still.
service_vars ==
    <<now, keys, key_stats, last_daily_reset, data, is_initialized, started, boot,
      tasks, last_tick, cycles, calls, consec, live_grants, retries>>

Noon == 12 * 3600
\* Candle timestamps: midnight, noon, the last 4h candle of the day.
CandleTimes == {0, Noon, 20 * 3600}
\* Seconds between the candle timestamp and the clock: around every duration.
Lags == {0, 59, 60, 61, 299, 300, 301, 899, 900, 901, 3599, 3600, 3601,
         14399, 14400, 14401}
LagSteps == {1, 60, 3600}
MaxLag == 8 * 3600
\* The configured timeframes and two names that are none of them.
ProbeTimeframes == {CONFIG_TIMEFRAMES[i] : i \in 1..Len(CONFIG_TIMEFRAMES)} \cup {"2h", ""}

ConfirmInputs ==
    {[fn |-> "is_confirmed_closed", candle_ts |-> ts, timeframe |-> tf, t |-> ts + d,
      done |-> FALSE, out |-> FALSE, before |-> FALSE] :
        ts \in CandleTimes, tf \in ProbeTimeframes, d \in Lags}

\* Every minute of a UTC day, at second 0 and at the cron second 5.
InstantInputs ==
    {[fn |-> "is_candle_closed", t |-> h * 3600 + m * 60 + sec, done |-> FALSE,
      closing |-> <<>>, due |-> <<>>] :
        h \in 0..23, m \in 0..59, sec \in {0, 5}}

RulesInit ==
    /\ Service
    /\ Len(keys) = 1
    /\ probe \in ConfirmInputs \cup InstantInputs

\* _is_confirmed_closed(candle_ts, now, timeframe)
ApplyConfirmed ==
    /\ probe.fn = "is_confirmed_closed"
    /\ ~ probe.done
    /\ probe' = [probe EXCEPT !.done = TRUE,
                              !.out = is_confirmed_closed(probe.candle_ts, probe.t,
                                                          probe.timeframe)]
    /\ UNCHANGED service_vars

\* The same candle and timeframe at a later clock.
LaterConfirmed ==
    /\ probe.fn = "is_confirmed_closed"
    /\ probe.done
    /\ \E d \in LagSteps :
         /\ probe.t + d <= probe.candle_ts + MaxLag
         /\ probe' = [probe EXCEPT !.t = probe.t + d,
                                   !.before = probe.out,
                                   !.out = is_confirmed_closed(probe.candle_ts,
                                                               probe.t + d,
                                                               probe.timeframe)]
    /\ UNCHANGED service_vars

\* is_candle_closed(tf, dt) for every configured timeframe, and
\* get_timeframes_to_fetch(dt) over the configured list.
ApplyClosing ==
    /\ probe.fn = "is_candle_closed"
    /\ ~ probe.done
    /\ probe' = [probe EXCEPT
                    !.done = TRUE,
                    !.closing = [i \in 1..Len(CONFIG_TIMEFRAMES) |->
                                    is_candle_closed(CONFIG_TIMEFRAMES[i], probe.t)],
                    !.due = ClosingAmong(CONFIG_TIMEFRAMES, probe.t)]
    /\ UNCHANGED service_vars

RulesNext == ApplyConfirmed \/ LaterConfirmed \/ ApplyClosing

RulesSpec == RulesInit /\ [][RulesNext]_vars

\* ------------------------------------------------ the fetch on its own
\* fetch_candles from the response on, applied to what the provider may
\* answer: an error, or up to outputsize + 1 candles newest first (the
\* request sets no "order", and the provider's default is newest first), the
\* newest of them the one open at t or one of the two before it (the
\* provider has not published the latest candles yet).
FetchClocks == {5, Noon + 5, StartNow}
ProviderLags == 0..2

ProviderValues(timeframe, n, lag, t) ==
    LET dur == Intervals(timeframe) * 60
    IN  [i \in 1..n |-> [datetime |-> (t \div dur) * dur - (lag + i - 1) * dur]]

ProviderResponses(timeframe, outputsize, t) ==
    {[ok |-> FALSE, values |-> <<>>]} \cup
    {[ok |-> TRUE, values |-> ProviderValues(timeframe, n, lag, t)] :
        n \in 0..(outputsize + 1), lag \in ProviderLags}

\* What fetch_candles returns: None, or the list of confirmed candles.
None == [none |-> TRUE, candles |-> <<>>]

fetch_candles(resp, timeframe, outputsize, t) ==
    IF ~ resp.ok THEN None
    ELSE LET confirmed_candles == Confirmed(resp.values, timeframe, outputsize, t)
         IN  IF confirmed_candles # <<>>
             THEN [none |-> FALSE, candles |-> confirmed_candles]
             ELSE None

FetchInputs ==
    UNION {{[fn |-> "fetch_candles", timeframe |-> CONFIG_TIMEFRAMES[i],
             outputsize |-> outputsize, t |-> t, resp |-> resp, done |-> FALSE,
             out |-> None] :
               resp \in ProviderResponses(CONFIG_TIMEFRAMES[i], outputsize, t)} :
           i \in 1..Len(CONFIG_TIMEFRAMES), outputsize \in 1..MaxHistory,
           t \in FetchClocks}

FetchInit ==
    /\ Service
    /\ Len(keys) = 1
    /\ probe \in FetchInputs

ApplyFetch ==
    /\ probe.fn = "fetch_candles"
    /\ ~ probe.done
    /\ probe' = [probe EXCEPT !.done = TRUE,
                              !.out = fetch_candles(probe.resp, probe.timeframe,
                                                    probe.outputsize, probe.t)]
    /\ UNCHANGED service_vars

FetchNext == ApplyFetch

FetchSpec == FetchInit /\ [][FetchNext]_vars

\* ------------------------------------------------ the store on its own
\* DataStorage driven directly: set_initial_data with what a bootstrap fetch
\* returns, add_single_candle with any candle of the timeframe, and
\* add_single_candle once more with the candle of the call before.
StoreClocks == {StartNow, StartNow + 60, StartNow + 300}

\* Timestamps of candles of a timeframe around the start of the run.
StoreStamps(timeframe) ==
    LET dur == Intervals(timeframe) * 60
    IN  {(StartNow \div dur) * dur + k * dur : k \in -2..1}

StoreRec(fn, pair, timeframe, candle, ops, again, once) ==
    [fn |-> fn, pair |-> pair, timeframe |-> timeframe, candle |-> candle,
     ops |-> ops, again |-> again, once |-> once]

StoreInit ==
    /\ Service
    /\ Len(keys) = 1
    /\ probe = StoreRec("new", "", "", [datetime |-> 0], 0, FALSE, <<>>)

StoreSet(pair, timeframe) ==
    /\ probe.ops < MaxStoreOps
    /\ \E t \in StoreClocks :
       \E candles \in {Confirmed(LatestCandles(timeframe, ROLLING_LIMITS[timeframe] + 1, t),
                                 timeframe, ROLLING_LIMITS[timeframe], t)} :
         /\ data' = set_initial_data(data, pair, timeframe, candles)
         /\ probe' = StoreRec("set_initial_data", pair, timeframe, [datetime |-> 0],
                              probe.ops + 1, FALSE, <<>>)
    /\ UNCHANGED <<now, keys, key_stats, last_daily_reset, is_initialized, started,
                   boot, tasks, last_tick, cycles, calls, consec, live_grants, retries>>

StoreAdd(pair, timeframe) ==
    /\ probe.ops < MaxStoreOps
    /\ \E ts \in StoreStamps(timeframe) :
         /\ data' = add_single_candle(data, pair, timeframe, [datetime |-> ts])
         /\ probe' = StoreRec("add_single_candle", pair, timeframe, [datetime |-> ts],
                              probe.ops + 1, FALSE, <<>>)
    /\ UNCHANGED <<now, keys, key_stats, last_daily_reset, is_initialized, started,
                   boot, tasks, last_tick, cycles, calls, consec, live_grants, retries>>

\* add_single_candle called again with the candle of the call before.
StoreAddAgain ==
    /\ probe.fn = "add_single_candle"
    /\ ~ probe.again
    /\ data' = add_single_candle(data, probe.pair, probe.timeframe, probe.candle)
    /\ probe' = [probe EXCEPT !.again = TRUE,
                              !.once = data[probe.pair][probe.timeframe]]
    /\ UNCHANGED <<now, keys, key_stats, last_daily_reset, is_initialized, started,
                   boot, tasks, last_tick, cycles, calls, consec, live_grants, retries>>

StoreNext ==
    \/ \E pair \in PairSet : \E timeframe \in TfSet : StoreSet(pair, timeframe)
    \/ \E pair \in PairSet : \E timeframe \in TfSet : StoreAdd(pair, timeframe)
    \/ StoreAddAgain

StoreSpec == StoreInit /\ [][StoreNext]_vars

\* ============================================================ properties
CallsOf(op) == {i \in 1..Len(calls) : calls[i].op = op}
Grants == {i \in 1..Len(calls) : calls[i].op \in {"reserve", "select"}
                                   /\ calls[i].key # NoKey}

\* C1: the pool never hands out (reserve_key_for_request, get_available_key)
\* a key whose requests_today >= the daily limit or whose
\* requests_this_minute >= the per-minute limit at the moment of the grant.
C1_GrantUnderLimits ==
    \A i \in Grants :
        /\ calls[i].post.stats[calls[i].key].requests_today < TWELVEDATA_DAILY_LIMIT
        /\ calls[i].post.stats[calls[i].key].requests_this_minute
              < TWELVEDATA_MINUTE_LIMIT

\* A key is granted while another key is over a limit.
C1_Witness ==
    \E i \in Grants : \E k \in KeySet :
        /\ k # calls[i].key
        /\ calls[i].post.stats[k].requests_today >= TWELVEDATA_DAILY_LIMIT

\* C2: the reservations of one key granted to live-mode tasks inside one
\* minute window of the key never exceed the per-minute limit.
C2_NoDoubleGrant ==
    \A k \in KeySet : live_grants[k] <= TWELVEDATA_MINUTE_LIMIT

\* The counters of the pool as the eligibility check of a call sees them.
AtCheck(e) ==
    ResetMinutes(reset_daily_counters_if_needed(e.pre, e.time), e.time).stats

\* C3: a successful reserve has raised requests_today and
\* requests_this_minute of the granted key by one and set its
\* last_used_timestamp when it returns.
C3_ReserveAccounts ==
    \A i \in CallsOf("reserve") :
        calls[i].key # NoKey =>
            LET k == calls[i].key
                s == calls[i].post.stats[k]
            IN  /\ s.requests_today = AtCheck(calls[i])[k].requests_today + 1
                /\ s.requests_this_minute
                      = AtCheck(calls[i])[k].requests_this_minute + 1
                /\ s.last_used_timestamp = calls[i].time

\* C4: every request is sent with the key its reservation granted.
C4_RequestUsesReservedKey ==
    \A i \in CallsOf("send") : calls[i].key = calls[i].reserved

\* C5: with a single key, after N successful reserves in one window and no
\* other accounting, requests_this_minute is N, and N never passes the limit.
C5_SingleKeyWindowCount ==
    Len(keys) = 1 =>
        \A k \in KeySet :
            consec[k] >= 0 =>
                /\ key_stats[k].requests_this_minute = consec[k]
                /\ consec[k] <= TWELVEDATA_MINUTE_LIMIT

\* C6: reserve returns no key only when no key is under both limits; with two
\* keys, the first at the per-minute limit and the second unused, it returns
\* the second.
C6_ReserveGrantsWhenEligible ==
    \A i \in CallsOf("reserve") :
        LET st == calls[i].post.stats
        IN  /\ calls[i].key = NoKey =>
                \A k \in KeySet :
                    \/ st[k].requests_today >= TWELVEDATA_DAILY_LIMIT
                    \/ st[k].requests_this_minute >= TWELVEDATA_MINUTE_LIMIT
            /\ (/\ Len(keys) = 2
                /\ st[keys[1]].requests_this_minute >= TWELVEDATA_MINUTE_LIMIT
                /\ st[keys[2]].requests_this_minute = 0
                /\ st[keys[2]].requests_today < TWELVEDATA_DAILY_LIMIT)
               => calls[i].key = keys[2]

\* The first key is at its per-minute limit, the second is unused in its
\* window, and reserve returns the second.
C6_Witness ==
    \E i \in CallsOf("reserve") :
        /\ Len(keys) = 2
        /\ calls[i].post.stats[keys[1]].requests_this_minute >= TWELVEDATA_MINUTE_LIMIT
        /\ calls[i].post.stats[keys[2]].requests_this_minute = 0
        /\ calls[i].key = keys[2]

\* The window of a key has been open for 60 s or more, or was never opened.
Stale(s, t) == s.minute_window_start = 0 \/ s.minute_window_start + 60 <= t

\* C7: reserve zeroes requests_this_minute of every key whose window is over
\* or was never opened and restarts the window at now before it looks for a
\* key, so that such a key under its daily limit can be granted.
C7_MinuteRollover ==
    \A i \in CallsOf("reserve") : \A k \in KeySet :
        Stale(calls[i].pre.stats[k], calls[i].time) =>
            /\ calls[i].post.stats[k].requests_this_minute = 0
            /\ calls[i].post.stats[k].minute_window_start = calls[i].time
            /\ calls[i].post.stats[k].requests_today < TWELVEDATA_DAILY_LIMIT
                  => calls[i].key # NoKey

\* A key that was at its per-minute limit exactly 60 s after its window
\* opened is reset and granted.
C7_Witness ==
    \E i \in CallsOf("reserve") :
        /\ calls[i].key # NoKey
        /\ calls[i].pre.stats[calls[i].key].requests_this_minute
              >= TWELVEDATA_MINUTE_LIMIT
        /\ calls[i].pre.stats[calls[i].key].minute_window_start + 60 = calls[i].time

\* The last use of a key (if any) was before the UTC day of t.
UsedBefore(s, t) == s.last_used_timestamp < Date(t) * 86400

\* C8: whatever the pool is called for (reserve, key selection, usage
\* recording, stats), a key last used before the current UTC day has its
\* requests_today reset to 0 before the call reads or increments it.
C8_DailyRollover ==
    \A i \in 1..Len(calls) : \A n \in 1..Len(keys) :
        LET e == calls[i]
            k == keys[n]
        IN  UsedBefore(e.pre.stats[k], e.time) =>
                CASE e.op \in {"reserve", "select"} ->
                        e.post.stats[k].requests_today = 0
                  [] e.op = "record" ->
                        e.post.stats[k].requests_today = (IF e.key = k THEN 1 ELSE 0)
                  [] e.op = "stats" -> e.out.key_stats[n].requests_today = 0
                  [] OTHER -> TRUE

Loaded(p, tf) == Len(data[p][tf]) > 0

\* C9: is_initialized is true only when every (pair, timeframe) has been
\* loaded into the store, and no live task exists and no live call of the
\* pool is made while it is false.
C9_BootstrapGatesLive ==
    /\ is_initialized => \A p \in PairSet : \A tf \in TfSet : Loaded(p, tf)
    /\ ~ is_initialized =>
          /\ \A p \in PairSet : tasks[p].pc = "idle"
          /\ \A i \in 1..Len(calls) : calls[i].who.mode # "live"

\* Bootstrap has completed and a live request is in flight.
C9_Witness ==
    /\ is_initialized
    /\ \E p \in PairSet : tasks[p].pc = "fetching"

IsPrefix(a, b) == Len(a) <= Len(b) /\ a = SubSeq(b, 1, Len(a))

\* C10: a live fetch that gets no key is skipped: no request goes out for
\* it, the task does not wait but goes on in the same step to the timeframes
\* left, and every task of a cycle is given all the timeframes due in it.
C10_LiveNeverBlocks ==
    /\ \A i \in CallsOf("skip") :
          /\ i > 1 /\ calls[i - 1].op = "reserve" /\ calls[i - 1].key = NoKey
          /\ \A j \in CallsOf("send") : calls[j].who # calls[i].who
    /\ \A p \in PairSet :
          /\ tasks[p].pc # "idle" => tasks[p].due = get_timeframes_to_fetch(last_tick)
          /\ tasks[p].pc = "sleeping" => tasks[p].attempted = <<>>
          /\ tasks[p].pc = "fetching" =>
                /\ IsPrefix(tasks[p].attempted, SortedTfs(tasks[p].due))
                /\ tasks[p].attempted # <<>>
                /\ tasks[p].attempted[Len(tasks[p].attempted)] = Head(tasks[p].tfs)
          /\ tasks[p].pc = "done" => tasks[p].attempted = SortedTfs(tasks[p].due)

\* A live task is refused a key for one timeframe and, in the same step,
\* asks for a key for its next timeframe.
C10_Witness ==
    \E i \in CallsOf("skip") : \E j \in CallsOf("reserve") :
        /\ i < j
        /\ calls[i].who.mode = "live"
        /\ calls[j].who.pair = calls[i].who.pair
        /\ calls[j].who.tf # calls[i].who.tf

\* C11: every candle in the store, written by bootstrap or by a live task,
\* passed is_confirmed_closed when its fetch was filtered (the write is in
\* the step of the filter), so no stream ever holds a candle still open.
C11_OnlyClosedStored ==
    \A p \in PairSet : \A tf \in TfSet : \A i \in 1..Len(data[p][tf]) :
        is_confirmed_closed(data[p][tf][i].datetime, now, tf)

\* A live fetch has just stored the candle that closed last: the response
\* also held the candle open at that time, which was left out.
C11_Witness ==
    \E e \in 1..Len(calls) :
        /\ calls[e].op = "record"
        /\ calls[e].who.mode = "live"
        /\ LET s == data[calls[e].who.pair][calls[e].who.tf]
               dur == Intervals(calls[e].who.tf) * 60
           IN  /\ s # <<>>
               /\ s[Len(s)].datetime + dur = (now \div dur) * dur
               /\ ~ is_confirmed_closed(LatestCandles(calls[e].who.tf, 2, now)[1].datetime,
                                        now, calls[e].who.tf)

\* The duration of a granularity in seconds as the specification lists them;
\* 0 for a granularity with no known duration.
GranularityDuration(g) ==
    CASE g = "1min" -> 60
      [] g = "5min" -> 300
      [] g = "15min" -> 900
      [] g = "1h" -> 3600
      [] g = "4h" -> 14400
      [] OTHER -> 0

\* C12: is_confirmed_closed(ts, now, g) is true iff g has a known duration
\* and now >= ts + duration(g); an unknown g is always rejected; a 15min
\* candle of 12:00:00 is not closed at 12:14:59 and is closed at 12:15:00.
C12_ConfirmedIffPastClose ==
    (probe.fn = "is_confirmed_closed" /\ probe.done) =>
        /\ probe.out <=> (/\ GranularityDuration(probe.timeframe) > 0
                          /\ probe.t >= probe.candle_ts
                                          + GranularityDuration(probe.timeframe))
        /\ probe.timeframe \in {"2h", ""} => ~ probe.out
        /\ (probe.timeframe = "15min" /\ probe.candle_ts = Noon) =>
              /\ probe.t = Noon + 14 * 60 + 59 => ~ probe.out
              /\ probe.t = Noon + 15 * 60 => probe.out

\* The 15min candle of 12:00:00 is found closed at 12:15:00 sharp.
C12_Witness ==
    /\ probe.fn = "is_confirmed_closed"
    /\ probe.done
    /\ probe.timeframe = "15min"
    /\ probe.candle_ts = Noon
    /\ probe.t = Noon + 15 * 60
    /\ probe.out

\* C13: is_confirmed_closed is monotonic in now: a candle found closed at one
\* clock is found closed at every later clock.
C13_ConfirmedMonotonic ==
    (probe.fn = "is_confirmed_closed" /\ probe.done /\ probe.before) => probe.out

\* A candle first found open, then closed, is looked at again later still.
C13_Witness ==
    /\ probe.fn = "is_confirmed_closed"
    /\ probe.done
    /\ probe.before
    /\ probe.out
    /\ probe.t > probe.candle_ts + GranularityDuration(probe.timeframe) + 3600

\* The boundary of each granularity by hour and minute of the UTC day.
OnBoundary(g, hour, minute) ==
    CASE g = "1min" -> TRUE
      [] g = "5min" -> minute % 5 = 0
      [] g = "15min" -> minute % 15 = 0
      [] g = "1h" -> minute = 0
      [] g = "4h" -> hour % 4 = 0 /\ minute = 0

\* C14: for every configured timeframe and every (hour, minute) of a UTC
\* day, is_candle_closed is true iff the instant is on the boundary of the
\* timeframe, and get_timeframes_to_fetch is exactly the configured
\* timeframes for which it is true.
C14_ClosingOnBoundary ==
    (probe.fn = "is_candle_closed" /\ probe.done) =>
        LET hour == probe.t \div 3600
            minute == (probe.t % 3600) \div 60
        IN  /\ \A i \in 1..Len(CONFIG_TIMEFRAMES) :
                  probe.closing[i] <=> OnBoundary(CONFIG_TIMEFRAMES[i], hour, minute)
            /\ {probe.due[i] : i \in 1..Len(probe.due)}
                  = {CONFIG_TIMEFRAMES[i] : i \in {j \in 1..Len(CONFIG_TIMEFRAMES) :
                                                      probe.closing[j]}}
            /\ \A i, j \in 1..Len(probe.due) : i # j => probe.due[i] # probe.due[j]

\* At 04:00 every configured timeframe closes; at 04:20 two of them do.
C14_Witness ==
    /\ probe.fn = "is_candle_closed"
    /\ probe.done
    /\ \/ probe.t = 4 * 3600 + 5 /\ probe.due = CONFIG_TIMEFRAMES
       \/ probe.t = 4 * 3600 + 20 * 60 /\ probe.due = <<"1min", "5min">>

\* The candles of a stream that carry the timestamp ts.
Instances(stream, ts) == {i \in 1..Len(stream) : stream[i].datetime = ts}

\* C15: add_single_candle called twice with the same candle on one stream
\* leaves the stream as the first call left it, with exactly one candle of
\* that timestamp in it.
C15_AppendOneIdempotent ==
    (probe.fn = "add_single_candle" /\ probe.again) =>
        /\ data[probe.pair][probe.timeframe] = probe.once
        /\ Cardinality(Instances(data[probe.pair][probe.timeframe],
                                 probe.candle.datetime)) = 1

\* The candle was appended to a full stream, pushing the oldest one out, and
\* was then offered a second time.
C15_Witness ==
    /\ probe.fn = "add_single_candle"
    /\ probe.again
    /\ Len(probe.once) = ROLLING_LIMITS[probe.timeframe]
    /\ probe.once[Len(probe.once)] = probe.candle
    /\ probe.ops = MaxStoreOps

\* The position of a key in the configured order.
KeyIndex(k) == CHOOSE n \in 1..Len(keys) : keys[n] = k

\* C16: the key the pool hands out (reserve_key_for_request or
\* get_available_key) has the lowest requests_this_minute of the keys under
\* both limits at that moment, the earliest configured one among equals.
C16_LeastWindowCountGranted ==
    \A i \in Grants :
        LET st == calls[i].post.stats
            g == calls[i].key
        IN  \A k \in KeySet :
                (/\ st[k].requests_today < TWELVEDATA_DAILY_LIMIT
                 /\ st[k].requests_this_minute < TWELVEDATA_MINUTE_LIMIT)
                => \/ st[g].requests_this_minute < st[k].requests_this_minute
                   \/ /\ st[g].requests_this_minute = st[k].requests_this_minute
                      /\ KeyIndex(g) <= KeyIndex(k)

\* The place of stream (PAIRS[i], TIMEFRAMES[j]) in the order pair list
\* first, timeframe list second.
StreamPos(i, j) == (i - 1) * Len(TIMEFRAMES) + j

\* One step of the service seen from bootstrap: the stream it works on stays
\* or moves to the next in order, it moves only off a loaded stream, and
\* every pool call and request it makes is for the stream it is on, all
\* streams before that one being loaded.
BootOrdered ==
    /\ StreamPos(boot'.pair, boot'.tf)
          \in {StreamPos(boot.pair, boot.tf), StreamPos(boot.pair, boot.tf) + 1}
    /\ StreamPos(boot'.pair, boot'.tf) # StreamPos(boot.pair, boot.tf)
          => Len(data[PAIRS[boot.pair]][TIMEFRAMES[boot.tf]]) > 0
    /\ (boot.pc = "fetching" /\ boot'.pc = "sleep")
          => /\ boot'.pair = boot.pair /\ boot'.tf = boot.tf
             /\ data' = data
    /\ \A e \in 1..Len(calls') :
          calls'[e].who.mode = "boot" =>
              /\ calls'[e].who.pair = PAIRS[boot'.pair]
              /\ calls'[e].who.tf = TIMEFRAMES[boot'.tf]
              /\ \A i \in 1..Len(PAIRS) : \A j \in 1..Len(TIMEFRAMES) :
                    StreamPos(i, j) < StreamPos(boot'.pair, boot'.tf)
                        => Len(data'[PAIRS[i]][TIMEFRAMES[j]]) > 0

\* C17: bootstrap goes through the streams in the order of the pair list,
\* then the timeframe list, starts no fetch for a stream while one before it
\* is not loaded, and after a failed fetch or a refused key tries the same
\* stream again.
C17_BootstrapInOrder == [][BootOrdered]_vars

\* Bootstrap is fetching a stream past the first one again after a failure.
C17_Witness ==
    /\ boot.pc = "fetching"
    /\ StreamPos(boot.pair, boot.tf) > 1
    /\ retries > 0

\* C18: the transient-failure retries of bootstrap for one stream are
\* bounded: the fetches of one stream that fail in a row never pass the
\* bound, bootstrap giving the stream up once the bound is used up.
C18_BootRetriesBounded == retries <= MaxBootRetries

\* C19: with a provider that in the end returns confirmed candles for every
\* stream and a clock that keeps advancing, bootstrap sets is_initialized,
\* also when every key is out of quota (per minute or per day) on the way.
C19_BootstrapCompletes == <>is_initialized

\* Bootstrap is asleep after a reserve that found every key at its daily
\* limit.
C19_Witness ==
    /\ boot.pc = "sleep"
    /\ \E e \in CallsOf("reserve") : calls[e].key = NoKey
    /\ \A k \in KeySet : key_stats[k].requests_today >= TWELVEDATA_DAILY_LIMIT

LiveReserves(p) ==
    {i \in CallsOf("reserve") : calls[i].who.mode = "live" /\ calls[i].who.pair = p}

Position(seq, x) ==
    IF \E i \in 1..Len(seq) : seq[i] = x
    THEN CHOOSE i \in 1..Len(seq) : seq[i] = x
    ELSE 0

\* C20: in the turn of one pair the due timeframes are attempted fastest
\* first: the timeframes attempted so far rise strictly in priority, a
\* reserve for a timeframe comes only when every faster timeframe due for
\* the pair has been attempted before it and is no longer in flight (its
\* request was answered and recorded, or it was skipped), and the reserves
\* of one step come in priority order.
C20_LivePriorityOrder ==
    \A p \in PairSet :
        /\ \A a, b \in 1..Len(tasks[p].attempted) :
              a < b => PriorityIndex(tasks[p].attempted[a])
                           < PriorityIndex(tasks[p].attempted[b])
        /\ \A i, j \in LiveReserves(p) :
              i < j => PriorityIndex(calls[i].who.tf) < PriorityIndex(calls[j].who.tf)
        /\ \A i \in LiveReserves(p) : \A n \in 1..Len(tasks[p].due) :
              PriorityIndex(tasks[p].due[n]) < PriorityIndex(calls[i].who.tf) =>
                  /\ Position(tasks[p].attempted, tasks[p].due[n]) > 0
                  /\ Position(tasks[p].attempted, tasks[p].due[n])
                         < Position(tasks[p].attempted, calls[i].who.tf)
                  /\ ~ (tasks[p].pc = "fetching" /\ Head(tasks[p].tfs) = tasks[p].due[n])

\* A live task asks for a key for 5min after its request for 1min was
\* answered and recorded.
C20_Witness ==
    \E p \in PairSet : \E i \in LiveReserves(p) : \E j \in CallsOf("record") :
        /\ j < i
        /\ calls[j].who = Caller("live", p, "1min")
        /\ calls[i].who.tf = "5min"
        /\ tasks[p].attempted = <<"1min", "5min">>

ClosedIn(values, timeframe, t) ==
    {i \in 1..Len(values) : is_confirmed_closed(values[i].datetime, t, timeframe)}

\* C21: fetch_candles returns at most outputsize candles, each of them a
\* candle of the response that is confirmed closed, as many as are closed up
\* to outputsize, and every closed candle it leaves out is older than all it
\* returns; with no confirmed candle (or an error) it returns None and never
\* an empty list.
C21_FetchNewestConfirmed ==
    (probe.fn = "fetch_candles" /\ probe.done) =>
        LET out == probe.out.candles
            values == probe.resp.values
            closed == ClosedIn(values, probe.timeframe, probe.t)
        IN  /\ Len(out) <= probe.outputsize
            /\ Len(out) = IF Cardinality(closed) < probe.outputsize
                          THEN Cardinality(closed) ELSE probe.outputsize
            /\ \A i \in 1..Len(out) :
                  /\ is_confirmed_closed(out[i].datetime, probe.t, probe.timeframe)
                  /\ \E j \in closed : values[j] = out[i]
            /\ \A j \in closed :
                  (\A i \in 1..Len(out) : out[i] # values[j]) =>
                      \A i \in 1..Len(out) : out[i].datetime > values[j].datetime
            /\ probe.out.none <=> (~ probe.resp.ok \/ closed = {})
            /\ probe.out.none <=> out = <<>>

\* The response holds more closed candles than were asked for, and the
\* newest of them are returned.
C21_Witness ==
    /\ probe.fn = "fetch_candles" /\ probe.done
    /\ Cardinality(ClosedIn(probe.resp.values, probe.timeframe, probe.t))
           > probe.outputsize
    /\ ~ probe.out.none
    /\ Len(probe.out.candles) = probe.outputsize
    /\ probe.out.candles[1] = probe.resp.values[1]

\* C22: usage is counted exactly: a request that was sent is counted once,
\* on the key it was sent with.  A step records usage only for the one
\* request answered in it, so the step makes at most one call of
\* record_usage for a caller.
C22_UsageCountedOnce ==
    \A i, j \in CallsOf("record") : calls[i].who = calls[j].who => i = j

\* C23: in every state each key's requests_this_minute is at most the
\* per-minute limit and its requests_today is at most the daily limit.
C23_CountersWithinLimits ==
    \A k \in KeySet :
        /\ key_stats[k].requests_this_minute <= TWELVEDATA_MINUTE_LIMIT
        /\ key_stats[k].requests_today <= TWELVEDATA_DAILY_LIMIT

====
